---- MODULE Spec2Model ----
(***************************************************************************)
(* TaxGH: a Ghana PAYE calculator (src/src/App.tsx).                       *)
(*                                                                         *)
(*   - calculateTax: the pure bracket engine;                              *)
(*   - fetchLatestTaxRates: fetch of a rate table with fallback;           *)
(*   - App: the React component holding income text, period toggle, the    *)
(*     rate table and the loading flag.                                    *)
(*                                                                         *)
(* JavaScript values are tagged records.  A number is an IEEE 754 double:   *)
(* NaN, an infinity, or (-1)^s * m * 2^e with a 53-bit mantissa m; every   *)
(* arithmetic operation of the program rounds its result as the hardware   *)
(* does, to the nearest double, ties to the even mantissa.                 *)
(***************************************************************************)
EXTENDS Integers, Sequences, FiniteSets, TLC

VARIABLES
    \* ---- App component state (useState) and its environment ----
    income,          \* text of the income field (sequence of characters)
    isAnnual,        \* period toggle
    rates,           \* the held TaxRates
    isLoadingRates,  \* loading flag
    results,         \* useMemo: calculateTax(monthlyIncome, rates)
    mounted,         \* the mount effect has run
    apiKey,          \* process.env.GEMINI_API_KEY is set
    calls,           \* calls of fetchLatestTaxRates made so far, by number
    requests,        \* number of generateContent requests issued
    applied,         \* numbers of the calls whose result was given to setRates
    \* ---- direct use of calculateTax on drawn inputs ----
    cRates,          \* the rate table under test
    cOut             \* the last two results of calculateTax on cRates

appVars  == <<income, isAnnual, rates, isLoadingRates, results, mounted,
              apiKey, calls, requests, applied>>
calcVars == <<cRates, cOut>>
vars     == <<appVars, calcVars>>

----------------------------------------------------------------------------
(* JavaScript numbers: IEEE 754 binary64, every operation rounded to nearest, *)
(* ties to even                                                              *)

(* Natural numbers of any size: little-endian sequences of limbs in base 2^15, *)
(* without leading zero limbs; <<>> is 0.                                      *)
Base == 2^15

Max(a, b) == IF a >= b THEN a ELSE b

RECURSIVE Pow2(_)
Pow2(k) == IF k = 0 THEN 1 ELSE 2 * Pow2(k - 1)

\* the number of limbs of x up to the highest one that is not 0
Top(x) ==
    IF \A i \in 1..Len(x) : x[i] = 0 THEN 0
    ELSE Len(x) - (CHOOSE t \in 0..(Len(x) - 1) :
                     /\ x[Len(x) - t] # 0
                     /\ \A k \in 0..(t - 1) : x[Len(x) - k] = 0)

\* x without its leading zero limbs
Trim(x) == SubSeq(x, 1, Top(x))

RECURSIVE BigOf(_)
BigOf(n) == IF n = 0 THEN <<>> ELSE <<n % Base>> \o BigOf(n \div Base)

Limb(x, i) == IF i <= Len(x) THEN x[i] ELSE 0

\* the carry into limb i of a + b: a limb below makes one, and every limb
\* between passes it on
AddCarry(a, b, i) ==
    \E t \in 1..(i - 1) :
        /\ Limb(a, i - t) + Limb(b, i - t) >= Base
        /\ \A k \in 1..(t - 1) : Limb(a, i - k) + Limb(b, i - k) = Base - 1

BigAdd(a, b) ==
    Trim([i \in 1..(Max(Len(a), Len(b)) + 1) |->
            (Limb(a, i) + Limb(b, i) + (IF AddCarry(a, b, i) THEN 1 ELSE 0)) % Base])

\* the borrow from limb i of a - b: a limb below takes one, and every limb
\* between passes it on
SubBorrow(a, b, i) ==
    \E t \in 1..(i - 1) :
        /\ a[i - t] < Limb(b, i - t)
        /\ \A k \in 1..(t - 1) : a[i - k] = Limb(b, i - k)

\* a - b, for a >= b
BigSub(a, b) ==
    Trim([i \in 1..Len(a) |->
            (a[i] - Limb(b, i) - (IF SubBorrow(a, b, i) THEN 1 ELSE 0)) % Base])

\* -1 or 1 as a < b or a > b, for a and b of the same length that differ in
\* limb i and in no limb above it
CmpAt(a, b, i) == IF a[i] < b[i] THEN -1 ELSE 1

\* -1, 0, 1 as a < b, a = b, a > b
BigCmp(a, b) ==
    IF Len(a) < Len(b) THEN -1
    ELSE IF Len(a) > Len(b) THEN 1
    ELSE IF \A i \in 1..Len(a) : a[i] = b[i] THEN 0
    ELSE CmpAt(a, b, Len(a) - (CHOOSE t \in 0..(Len(a) - 1) :
                                 /\ a[Len(a) - t] # b[Len(a) - t]
                                 /\ \A k \in 0..(t - 1) : a[Len(a) - k] = b[Len(a) - k]))

\* a * x for 0 <= x < Base: the low parts of the limb products, and their
\* high parts one limb up
MulSmall(a, x) ==
    IF x = 0 \/ a = <<>> THEN <<>>
    ELSE BigAdd([i \in 1..Len(a) |-> (a[i] * x) % Base],
                <<0>> \o [i \in 1..Len(a) |-> (a[i] * x) \div Base])

\* x * Base^k
ShiftLimbs(x, k) == IF k = 0 \/ x = <<>> THEN x ELSE [j \in 1..k |-> 0] \o x

\* a times the limbs lo .. hi of b, lo <= hi: by halves
RECURSIVE MulRange(_, _, _, _)
MulRange(a, b, lo, hi) ==
    IF lo = hi THEN MulSmall(a, b[lo])
    ELSE BigAdd(MulRange(a, b, lo, (lo + hi) \div 2),
                ShiftLimbs(MulRange(a, b, (lo + hi) \div 2 + 1, hi),
                           (lo + hi) \div 2 + 1 - lo))

BigMul(a, b) == IF b = <<>> THEN <<>> ELSE MulRange(a, b, 1, Len(b))

\* quotient and remainder of a by d, 0 < d < Base: limbs i down to 1, q the
\* quotient limbs so far (from the top down, one for each limb of a in the
\* end) and r the remainder so far
RECURSIVE DivSmallFrom(_, _, _, _, _)
DivSmallFrom(a, d, i, q, r) ==
    IF Len(q) = Len(a) THEN [q |-> q, r |-> r]
    ELSE IF r = 0 /\ a[i] = 0 THEN DivSmallFrom(a, d, i - 1, <<0>> \o q, 0)
    ELSE DivSmallFrom(a, d, i - 1, <<(r * Base + a[i]) \div d>> \o q, (r * Base + a[i]) % d)

DivSmallResult(res) == [q |-> Trim(res.q), r |-> BigOf(res.r)]

DivSmall(a, d) == DivSmallResult(DivSmallFrom(a, d, Len(a), <<>>, 0))

RECURSIVE BitLenLimb(_)
BitLenLimb(x) == IF x = 0 THEN 0 ELSE 1 + BitLenLimb(x \div 2)

BitLen(x) == IF x = <<>> THEN 0 ELSE 15 * (Len(x) - 1) + BitLenLimb(x[Len(x)])

\* x * 2^k
ShiftLeft(x, k) == ShiftLimbs(MulSmall(x, Pow2(k % 15)), k \div 15)

\* x without its w low limbs, over lo = 2^b for b < 15, with hi = 2^(15 - b):
\* each limb gives its high bits, and takes the low bits of the next one
ShiftedDown(x, w, lo, hi) ==
    [j \in 1..(Len(x) - w) |-> (x[j + w] \div lo + Limb(x, j + w + 1) * hi) % Base]

\* x \div 2^k
ShiftRight(x, k) ==
    IF k \div 15 >= Len(x) THEN <<>>
    ELSE Trim(SubSeq(ShiftedDown(x, k \div 15, Pow2(k % 15), Pow2(15 - (k % 15))),
                     1, Len(x) - k \div 15))

Odd(x) == x # <<>> /\ x[1] % 2 = 1

\* the largest x with d * x <= t, given d * lo <= t < d * hi
RECURSIVE QuotientDigit(_, _, _, _)
QuotientDigit(t, d, lo, hi) ==
    IF hi - lo = 1 THEN lo
    ELSE IF BigCmp(MulSmall(d, (lo + hi) \div 2), t) <= 0
    THEN QuotientDigit(t, d, (lo + hi) \div 2, hi)
    ELSE QuotientDigit(t, d, lo, (lo + hi) \div 2)

\* quotient and remainder of a by any d > 0: limbs i down to 1, q the quotient
\* limbs so far; t is the remainder so far with limb i brought down and x the
\* quotient limb it gives
RECURSIVE DivLimbsFrom(_, _, _, _, _)
DivLimbsDigit(a, d, i, q, t, x) ==
    DivLimbsFrom(a, d, i - 1, <<x>> \o q, BigSub(t, MulSmall(d, x)))

DivLimbsDown(a, d, i, q, t) ==
    IF BigCmp(t, d) < 0 THEN DivLimbsFrom(a, d, i - 1, <<0>> \o q, t)
    ELSE DivLimbsDigit(a, d, i, q, t, QuotientDigit(t, d, 0, Base))

DivLimbsFrom(a, d, i, q, r) ==
    IF i = 0 THEN [q |-> Trim(q), r |-> r]
    ELSE DivLimbsDown(a, d, i, q, BigAdd(ShiftLimbs(r, 1), BigOf(a[i])))

\* the limbs of a above the lowest Len(d) - 1 ones make less than d: the
\* quotient has no limb for them
BigDivMod(a, d) ==
    IF Len(d) = 1 THEN DivSmall(a, d[1])
    ELSE IF Len(a) < Len(d) THEN [q |-> <<>>, r |-> a]
    ELSE DivLimbsFrom(a, d, Len(a) - Len(d) + 1, <<>>,
                      SubSeq(a, Len(a) - Len(d) + 2, Len(a)))

\* the number of low bits of the limb v # 0 that are 0
LowZeros(v) == CHOOSE b \in 0..14 : v % Pow2(b + 1) # 0 /\ v % Pow2(b) = 0

\* the lowest limb of x # 0 that is not 0
LowLimb(x) == CHOOSE j \in 1..Len(x) : x[j] # 0 /\ \A k \in 1..(j - 1) : x[k] = 0

TrailingZerosAt(x, j) == 15 * (j - 1) + LowZeros(x[j])

\* the number of trailing zero bits of x # 0
TrailingZeros(x) == TrailingZerosAt(x, LowLimb(x))

(* IEEE 754 binary64 values.  A finite number is (-1)^s * m * 2^e with m a    *)
(* natural below 2^53 and e >= MinExp, in the one form in which m has 53 bits *)
(* or e = MinExp; zero has m = 0 and e = 0 and keeps its sign.                *)
Precision == 53
MinExp == -1074
MaxExp == 971

NaN == [t |-> "NaN"]
Infinity(s) == [t |-> "Infinity", s |-> s]
Finite(s, m, e) == [t |-> "number", s |-> s, m |-> m, e |-> e]
SignedZero(s) == Finite(s, <<>>, 0)

IsZero(x) == x.t = "number" /\ x.m = <<>>

\* the number (-1)^s * m * 2^e for a mantissa m of at most Precision + 1 bits
Pack(s, m, e) ==
    IF m = <<>> THEN SignedZero(s)
    ELSE IF BitLen(m) > Precision
    THEN (IF e + 1 > MaxExp THEN Infinity(s) ELSE Finite(s, ShiftRight(m, 1), e + 1))
    ELSE IF e > MaxExp THEN Infinity(s)
    ELSE Finite(s, m, e)

\* q is cut by shift > 0 bits: h holds the bits kept and the first bit cut,
\* m the bits kept; the cut part decides the rounding, ties to the even m
RoundCut(s, q, sticky, e, shift, h, m) ==
    Pack(s,
         IF Odd(h) /\ (sticky \/ Odd(m) \/ ShiftLeft(h, shift - 1) # q)
         THEN BigAdd(m, <<1>>) ELSE m,
         e + shift)

RoundHalf(s, q, sticky, e, shift, h) == RoundCut(s, q, sticky, e, shift, h, ShiftRight(h, 1))

\* shift is the number of low bits that q has too many (negative: too few)
RoundShift(s, q, sticky, e, shift) ==
    IF shift <= 0
    THEN (IF e + shift > MaxExp THEN Infinity(s)
          ELSE Finite(s, ShiftLeft(q, -shift), e + shift))
    ELSE RoundHalf(s, q, sticky, e, shift, ShiftRight(q, shift - 1))

\* the double nearest to (-1)^s * (q + f) * 2^e, where 0 <= f < 1 and
\* sticky tells whether f > 0 (ties go to the even mantissa)
RoundBig(s, q, sticky, e) ==
    IF q = <<>> THEN SignedZero(s)
    ELSE RoundShift(s, q, sticky, e, Max(BitLen(q) - Precision, MinExp - e))

RoundRem(s, qr, e) == RoundBig(s, qr.q, qr.r # <<>>, e)

\* n is scaled by 2^k so that the quotient has bits to round
RoundScaled(s, n, d, e, k) == RoundRem(s, BigDivMod(ShiftLeft(n, k), d), e - k)

RoundOdd(s, n, d, e) ==
    RoundScaled(s, n, d, e, Max(0, Precision + 2 + BitLen(d) - BitLen(n)))

\* d has z trailing zero bits
RoundStripped(s, n, d, e, z) == RoundOdd(s, n, ShiftRight(d, z), e - z)

\* the double nearest to (-1)^s * (n / d) * 2^e for naturals n and d > 0
RoundQuot(s, n, d, e) ==
    IF n = <<>> THEN SignedZero(s) ELSE RoundStripped(s, n, d, e, TrailingZeros(d))

Xor(s1, s2) == IF s1 = s2 THEN 0 ELSE 1

\* the number literal n/d written in decimal (d a power of ten), or any
\* fraction of integers, d > 0
Num(n, d) == RoundQuot(IF n < 0 THEN 1 ELSE 0, BigOf(IF n < 0 THEN -n ELSE n), BigOf(d), 0)

Whole(n) == Num(n, 1)
Zero == SignedZero(0)
One == Whole(1)

Neg(x) == IF x.t = "NaN" THEN x ELSE [x EXCEPT !.s = 1 - x.s]

\* a * b
Mul(a, b) ==
    IF a.t = "NaN" \/ b.t = "NaN" THEN NaN
    ELSE IF a.t = "Infinity" \/ b.t = "Infinity"
    THEN IF IsZero(a) \/ IsZero(b) THEN NaN ELSE Infinity(Xor(a.s, b.s))
    ELSE IF a.m = <<>> \/ b.m = <<>> THEN SignedZero(Xor(a.s, b.s))
    ELSE RoundBig(Xor(a.s, b.s), BigMul(a.m, b.m), FALSE, a.e + b.e)

\* x - y with the sign s of x, or y - x with the opposite sign, as c = 1 or
\* c = -1 tells which is larger; +0 when they are equal
AddOpposite(s, x, y, e, c) ==
    IF c = 0 THEN SignedZero(0)
    ELSE IF c > 0 THEN RoundBig(s, BigSub(x, y), FALSE, e)
    ELSE RoundBig(1 - s, BigSub(y, x), FALSE, e)

\* (-1)^s1 * x * 2^e + (-1)^s2 * y * 2^e for x and y not zero
AddMantissas(s1, x, s2, y, e) ==
    IF s1 = s2 THEN RoundBig(s1, BigAdd(x, y), FALSE, e)
    ELSE AddOpposite(s1, x, y, e, BigCmp(x, y))

\* the sum of two finite numbers that are not zero, hi.e >= lo.e
AddNear(hi, lo) == AddMantissas(hi.s, ShiftLeft(hi.m, hi.e - lo.e), lo.s, lo.m, lo.e)

\* a number far below the last bit of hi acts as any tiny number of its sign
AddAligned(hi, lo) ==
    IF hi.e - lo.e > Precision + 11
    THEN AddNear(hi, Finite(lo.s, <<1>>, hi.e - (Precision + 11)))
    ELSE AddNear(hi, lo)

\* a + b
Add(a, b) ==
    IF a.t = "NaN" \/ b.t = "NaN" THEN NaN
    ELSE IF a.t = "Infinity"
    THEN IF b.t = "Infinity" /\ a.s # b.s THEN NaN ELSE a
    ELSE IF b.t = "Infinity" THEN b
    ELSE IF a.m = <<>> /\ b.m = <<>> THEN SignedZero(IF a.s = 1 /\ b.s = 1 THEN 1 ELSE 0)
    ELSE IF a.m = <<>> THEN b
    ELSE IF b.m = <<>> THEN a
    ELSE IF a.e >= b.e THEN AddAligned(a, b) ELSE AddAligned(b, a)

\* a - b
Sub(a, b) == Add(a, Neg(b))

\* a / b
Div(a, b) ==
    IF a.t = "NaN" \/ b.t = "NaN" THEN NaN
    ELSE IF a.t = "Infinity"
    THEN IF b.t = "Infinity" THEN NaN ELSE Infinity(Xor(a.s, b.s))
    ELSE IF b.t = "Infinity" THEN SignedZero(Xor(a.s, b.s))
    ELSE IF b.m = <<>>
    THEN IF a.m = <<>> THEN NaN ELSE Infinity(Xor(a.s, b.s))
    ELSE RoundQuot(Xor(a.s, b.s), a.m, b.m, a.e - b.e)

\* -1, 0, 1 as |a| < |b|, |a| = |b|, |a| > |b|, for a and b not NaN
CmpMagnitude(a, b) ==
    IF a.t = "Infinity" THEN (IF b.t = "Infinity" THEN 0 ELSE 1)
    ELSE IF b.t = "Infinity" THEN -1
    ELSE IF a.m = <<>> \/ b.m = <<>>
    THEN (IF a.m = <<>> THEN 0 ELSE 1) - (IF b.m = <<>> THEN 0 ELSE 1)
    ELSE IF a.e < b.e THEN -1
    ELSE IF a.e > b.e THEN 1
    ELSE BigCmp(a.m, b.m)

Negative(x) == x.s = 1 /\ ~IsZero(x)

\* -1, 0, 1 as a < b, a = b, a > b, for numbers other than NaN
Compare(a, b) ==
    IF Negative(a) /\ ~Negative(b) THEN -1
    ELSE IF Negative(b) /\ ~Negative(a) THEN 1
    ELSE IF Negative(a) THEN CmpMagnitude(b, a)
    ELSE CmpMagnitude(a, b)

\* a <= b
Leq(a, b) == a.t # "NaN" /\ b.t # "NaN" /\ Compare(a, b) <= 0

\* a < b
Lt(a, b) == a.t # "NaN" /\ b.t # "NaN" /\ Compare(a, b) < 0

\* Math.min(a, b): the smaller one, -0 below +0, NaN when either is NaN
MathMin(a, b) ==
    IF a.t = "NaN" \/ b.t = "NaN" THEN NaN
    ELSE IF Lt(a, b) THEN a
    ELSE IF Lt(b, a) THEN b
    ELSE IF a.s = 1 THEN a ELSE b

null      == [t |-> "null"]
undefined == [t |-> "undefined"]
Str(s)    == [t |-> "string", v |-> s]
Arr(s)    == [t |-> "array", v |-> s]

----------------------------------------------------------------------------
(* taxService: the rate tables *)

Bracket(limit, rate) == [limit |-> limit, rate |-> rate]

\* mutant: the limits written as cumulative thresholds instead of widths
DEFAULT_GHANA_TAX_RATES_cumulative ==
    [ ssnitRate |-> Num(55, 1000),
      year      |-> Str("2024/2025"),
      brackets  |-> << Bracket(Whole(490),   Zero),
                       Bracket(Whole(600),   Num(5, 100)),
                       Bracket(Whole(730),   Num(10, 100)),
                       Bracket(Whole(3890),  Num(175, 1000)),
                       Bracket(Whole(20000), Num(25, 100)),
                       Bracket(Whole(65000), Num(30, 100)),
                       Bracket(null,         Num(35, 100)) >>,
      source    |-> undefined ]

DEFAULT_GHANA_TAX_RATES ==
    [ ssnitRate |-> Num(55, 1000),
      year      |-> Str("2024/2025"),
      brackets  |-> << Bracket(Whole(490),   Zero),
                       Bracket(Whole(110),   Num(5, 100)),
                       Bracket(Whole(130),   Num(10, 100)),
                       Bracket(Whole(3160),  Num(175, 1000)),
                       Bracket(Whole(16110), Num(25, 100)),
                       Bracket(Whole(45000), Num(30, 100)),
                       Bracket(null,       Num(35, 100)) >>,
      source    |-> undefined ]

----------------------------------------------------------------------------
(* taxService: calculateTax *)

\* the label of a breakdown entry: `Above previous` or `Next ${limit}`
BracketLabel(limit) ==
    IF limit = null THEN [text |-> "Above previous", limit |-> null]
                    ELSE [text |-> "Next", limit |-> limit]

\* mutant: the whole width is charged, without Math.min
AmountInThisBracket_noMin(remainingTaxable, limit) ==
    IF limit = null THEN remainingTaxable ELSE limit

\* the amount of one pass of the loop body
AmountInThisBracket(remainingTaxable, limit) ==
    IF limit = null THEN remainingTaxable
                    ELSE MathMin(remainingTaxable, limit)

\* mutant: the tax is taken from the gross income, the deduction forgotten
NetIncome_fromGross(grossIncome, taxableIncome, totalTax) == Sub(grossIncome, totalTax)

\* the netIncome of the result
NetIncome(grossIncome, taxableIncome, totalTax) == Sub(taxableIncome, totalTax)

\* mutant: the loop goes on when nothing is left
LoopBreaks_strict(remainingTaxable) == Lt(remainingTaxable, Zero)

\* the guard that ends the loop
LoopBreaks(remainingTaxable) == Leq(remainingTaxable, Zero)

\* the for loop from index i on, in the state (remainingTaxable, totalTax,
\* breakdown); its value is the state in which the loop ends
RECURSIVE BracketLoop(_, _, _, _, _)
BracketLoop(brackets, i, remainingTaxable, totalTax, breakdown) ==
    IF i > Len(brackets) \/ LoopBreaks(remainingTaxable)
    THEN [totalTax |-> totalTax, breakdown |-> breakdown]
    ELSE LET rate   == brackets[i].rate
             limit  == brackets[i].limit
             amountInThisBracket == AmountInThisBracket(remainingTaxable, limit)
             taxForThisBracket   == Mul(amountInThisBracket, rate)
         IN  BracketLoop(brackets, i + 1,
                         Sub(remainingTaxable, amountInThisBracket),
                         Add(totalTax, taxForThisBracket),
                         Append(breakdown,
                                [bracket |-> BracketLabel(limit),
                                 amount  |-> amountInThisBracket,
                                 tax     |-> taxForThisBracket]))

calculateTax(grossIncome, r) ==
    LET ssnit         == Mul(grossIncome, r.ssnitRate)
        taxableIncome == Sub(grossIncome, ssnit)
        loop          == BracketLoop(r.brackets, 1, taxableIncome, Zero, <<>>)
    IN  [ grossIncome   |-> grossIncome,
          ssnit         |-> ssnit,
          taxableIncome |-> taxableIncome,
          totalTax      |-> loop.totalTax,
          netIncome     |-> NetIncome(grossIncome, taxableIncome, loop.totalTax),
          breakdown     |-> loop.breakdown,
          ratesUsed     |-> r ]

----------------------------------------------------------------------------
(* taxService: fetchLatestTaxRates *)

\* JavaScript truthiness, as used by `||`, `&&` and `if`
Truthy(x) ==
    CASE x.t = "undefined" -> FALSE
      [] x.t = "null"      -> FALSE
      [] x.t = "NaN"       -> FALSE
      [] x.t = "number"    -> x.m # <<>>
      [] x.t = "string"    -> x.v # ""
      [] OTHER             -> TRUE

\* a || b
OrElse(a, b) == IF Truthy(a) THEN a ELSE b

\* Array.isArray
IsArray(x) == x.t = "array"

\* a parsed JSON object with the three fields the program reads
Obj(ssnitRate, year, brackets) ==
    [t |-> "object", ssnitRate |-> ssnitRate, year |-> year, brackets |-> brackets]

\* the value of JSON.parse failing with a SyntaxError
SyntaxError == [t |-> "SyntaxError"]

\* JSON.parse on the response bodies of ResponseTexts; any other text here
\* is not JSON
JSON_parse(text) ==
    CASE text = "{}"   -> Obj(undefined, undefined, undefined)
      [] text = "null" -> null
      [] text = "{\"brackets\":\"none\"}" -> Obj(undefined, undefined, Str("none"))
      [] text = "{\"brackets\":[]}"       -> Obj(undefined, undefined, Arr(<<>>))
      [] text = "{\"ssnitRate\":0.05,\"year\":\"2026\",\"brackets\":[{\"limit\":500,\"rate\":0},{\"limit\":null,\"rate\":0.25}]}"
           -> Obj(Num(5, 100), Str("2026"),
                  Arr(<< Bracket(Whole(500), Zero), Bracket(null, Num(25, 100)) >>))
      [] text = "{\"ssnitRate\":0,\"brackets\":[{\"limit\":100,\"rate\":0.1},{\"limit\":null,\"rate\":0.2}]}"
           -> Obj(Zero, undefined,
                  Arr(<< Bracket(Whole(100), Num(1, 10)), Bracket(null, Num(2, 10)) >>))
      [] OTHER -> SyntaxError

\* response.text of the replies the service may give
ResponseTexts ==
    { undefined, Str(""), Str("{}"), Str("null"), Str("Sorry, no data."),
      Str("{\"brackets\":\"none\"}"), Str("{\"brackets\":[]}"),
      Str("{\"ssnitRate\":0.05,\"year\":\"2026\",\"brackets\":[{\"limit\":500,\"rate\":0},{\"limit\":null,\"rate\":0.25}]}"),
      Str("{\"ssnitRate\":0,\"brackets\":[{\"limit\":100,\"rate\":0.1},{\"limit\":null,\"rate\":0.2}]}") }

\* what generateContent may do: throw/reject, or resolve with a response
Responses ==
    { [error |-> TRUE, text |-> undefined] }
      \cup { [error |-> FALSE, text |-> x] : x \in ResponseTexts }

\* the condition under which the parsed data is turned into a table
AcceptsData(data) == Truthy(data.brackets) /\ IsArray(data.brackets)

\* the rate used when the reply has none: `data.ssnitRate || 0.055`
FallbackSsnitRate == Num(55, 1000)

\* the body of the try block once generateContent has settled with resp,
\* the catch block and the final return
FetchResult(resp) ==
    IF resp.error THEN DEFAULT_GHANA_TAX_RATES
    ELSE LET data == JSON_parse(OrElse(resp.text, Str("{}")).v)
         IN  IF data = SyntaxError THEN DEFAULT_GHANA_TAX_RATES
             ELSE IF data = null THEN DEFAULT_GHANA_TAX_RATES \* TypeError, caught
             ELSE IF AcceptsData(data)
                  THEN [ ssnitRate |-> OrElse(data.ssnitRate, FallbackSsnitRate),
                         year      |-> OrElse(data.year, Str("2025")),
                         brackets  |-> data.brackets.v,
                         source    |-> Str("Gemini Live Search") ]
                  ELSE DEFAULT_GHANA_TAX_RATES

\* mutant: the key is not looked at
StartFetch_ignoresKey(key, ctorThrows) ==
    IF ctorThrows THEN [st |-> "rejected", value |-> undefined]
    ELSE [st |-> "awaiting", value |-> undefined]

\* fetchLatestTaxRates up to its first suspension: the call is resolved with
\* the default (no key), rejected (`new GoogleGenAI` threw, which is outside
\* the try block) or awaiting the reply of generateContent
StartFetch(key, ctorThrows) ==
    IF ~key THEN [st |-> "resolved", value |-> DEFAULT_GHANA_TAX_RATES]
    ELSE IF ctorThrows THEN [st |-> "rejected", value |-> undefined]
    ELSE [st |-> "awaiting", value |-> undefined]

----------------------------------------------------------------------------
(* App: the income field *)

\* StrWhiteSpaceChar, as far as a string of this module can hold it: space,
\* tab, line feed, carriage return, form feed, and written as themselves the
\* line tabulation U+000B, the no-break space U+00A0, the ogham space mark
\* U+1680 and the byte order mark U+FEFF (the spaces U+2000 to U+200A,
\* U+2028, U+2029, U+202F, U+205F and U+3000 cannot be written in a string)
WhiteSpace == {" ", "\t", "\n", "\r", "\f", "", " ", " ", "﻿"}

Digits == {"0", "1", "2", "3", "4", "5", "6", "7", "8", "9"}

DigitValue(c) ==
    CASE c = "0" -> 0 [] c = "1" -> 1 [] c = "2" -> 2 [] c = "3" -> 3
      [] c = "4" -> 4 [] c = "5" -> 5 [] c = "6" -> 6 [] c = "7" -> 7
      [] c = "8" -> 8 [] c = "9" -> 9

\* the number of characters of s from position i on up to the first one
\* outside the set cs
RunLength(s, i, cs) ==
    IF i > Len(s) THEN 0
    ELSE IF \A j \in i..Len(s) : s[j] \in cs THEN Len(s) - i + 1
    ELSE (CHOOSE j \in i..Len(s) :
              /\ s[j] \notin cs
              /\ \A k \in i..(j - 1) : s[k] \in cs) - i

\* the first position from i on that holds no white space
SkipWhiteSpace(s, i) == i + RunLength(s, i, WhiteSpace)

\* the number of leading digits of s from position i on
DigitRun(s, i) == RunLength(s, i, Digits)

Square(x) == BigMul(x, x)

\* 10^k, by squaring
RECURSIVE Pow10(_)
Pow10(k) ==
    IF k = 0 THEN <<1>>
    ELSE IF k % 2 = 1 THEN MulSmall(Pow10(k - 1), 10)
    ELSE Square(Pow10(k \div 2))

\* the value of the digits s[i .. i+k-1] read as a decimal integer: the
\* first half of them, shifted over the second half
RECURSIVE DigitsValue(_, _, _)
DigitsValue(s, i, k) ==
    IF k = 0 THEN <<>>
    ELSE IF k = 1 THEN BigOf(DigitValue(s[i]))
    ELSE BigAdd(BigMul(DigitsValue(s, i, k \div 2), Pow10(k - k \div 2)),
                DigitsValue(s, i + k \div 2, k - k \div 2))

\* exponents beyond this one are taken as this one, the result is the same:
\* the text s has at most Len(s) digits before the exponent part, so an
\* exponent above Len(s) + 400 leaves a literal other than 0 above 10^400,
\* beyond every double, and one below -(Len(s) + 400) leaves it under
\* 10^-400, below them all
ExponentCap(s) == Len(s) + 400

\* one more digit d after the exponent digits of value v, up to cap
ExponentStep(v, d, cap) ==
    IF v > (cap - d) \div 10 THEN cap ELSE 10 * v + d

\* the value of the k <= 10 exponent digits s[i .. i+k-1], up to cap
RECURSIVE ExponentDigits(_, _, _, _)
ExponentDigits(s, i, k, cap) ==
    IF k = 0 THEN 0
    ELSE ExponentStep(ExponentDigits(s, i, k - 1, cap),
                      DigitValue(s[i + k - 1]), cap)

\* the value of the k exponent digits s[i .. i+k-1], the first not 0: more
\* than ten of them are beyond every cap
ExponentFrom(s, i, k, cap) ==
    IF k > 10 THEN cap ELSE ExponentDigits(s, i, k, cap)

\* the number of leading zeros of the k digits s[i .. i+k-1]
LeadingZeros(s, i, k) == RunLength(SubSeq(s, 1, i + k - 1), i, {"0"})

\* the value of the exponent digits s[i .. i+k-1], up to ExponentCap(s)
ExponentValue(s, i, k) ==
    ExponentFrom(s, i + LeadingZeros(s, i, k), k - LeadingZeros(s, i, k),
                 ExponentCap(s))

\* the double nearest to (-1)^sign * n * 10^e for a natural n of nd digits;
\* what lies above every double is Infinity, what lies below them all is 0
Decimal(sign, n, nd, e) ==
    IF n = <<>> THEN SignedZero(sign)
    ELSE IF e > 310 THEN Infinity(sign)
    ELSE IF e + nd < -330 THEN SignedZero(sign)
    ELSE IF e >= 0 THEN RoundBig(sign, BigMul(n, Pow10(e)), FALSE, 0)
    ELSE RoundQuot(sign, n, Pow10(-e), 0)

\* the exponent digits start at position q, after a sign that is "-" or not
SignedExponent(s, q, minus) ==
    IF minus THEN -ExponentValue(s, q, DigitRun(s, q))
    ELSE ExponentValue(s, q, DigitRun(s, q))

\* the value of the ExponentPart at position p: e or E, a sign or none, and
\* digits; 0 when there is none
ExponentAt(s, p) ==
    IF p <= Len(s) /\ s[p] \in {"e", "E"}
    THEN (IF p + 1 <= Len(s) /\ s[p + 1] \in {"+", "-"}
          THEN SignedExponent(s, p + 2, s[p + 1] = "-")
          ELSE SignedExponent(s, p + 1, FALSE))
    ELSE 0

\* ni digits from position i, and nf digits of the fraction from position j
ParseMantissa(s, sign, i, ni, j, nf) ==
    IF ni = 0 /\ nf = 0 THEN NaN
    ELSE Decimal(sign,
                 BigAdd(BigMul(DigitsValue(s, i, ni), Pow10(nf)), DigitsValue(s, j, nf)),
                 ni + nf,
                 ExponentAt(s, j + nf) - nf)

\* ni digits from position i, then a point with its digits or none
ParseDigits(s, sign, i, ni) ==
    IF i + ni <= Len(s) /\ s[i + ni] = "."
    THEN ParseMantissa(s, sign, i, ni, i + ni + 1, DigitRun(s, i + ni + 1))
    ELSE ParseMantissa(s, sign, i, ni, i + ni, 0)

InfinityText == <<"I", "n", "f", "i", "n", "i", "t", "y">>

\* Infinity or a decimal literal from position i
ParseUnsigned(s, sign, i) ==
    IF i + 7 <= Len(s) /\ SubSeq(s, i, i + 7) = InfinityText THEN Infinity(sign)
    ELSE ParseDigits(s, sign, i, DigitRun(s, i))

\* a sign or none from position i
ParseSigned(s, i) ==
    IF i <= Len(s) /\ s[i] \in {"+", "-"}
    THEN ParseUnsigned(s, IF s[i] = "-" THEN 1 ELSE 0, i + 1)
    ELSE ParseUnsigned(s, 0, i)

\* parseFloat: leading white space is skipped, and the longest prefix of the
\* rest that is a StrDecimalLiteral ([+-] Infinity, or [+-] digits [. digits]
\* or [+-] . digits, each with an exponent part e [+-] digits or none) is
\* converted to the nearest double (-0 for a negative literal of value zero);
\* NaN when there is no such prefix
parseFloat(s) == ParseSigned(s, SkipWhiteSpace(s, 1))

\* parseFloat(income) || 0
NumIncome(text) == OrElse(parseFloat(text), Zero)

\* the divisor of an annual figure
Twelve == Whole(12)

\* isAnnual ? numIncome / 12 : numIncome
MonthlyIncome(text, annual) ==
    IF annual THEN Div(NumIncome(text), Twelve) ELSE NumIncome(text)

\* the useMemo of App
Results(text, annual, r) == calculateTax(MonthlyIncome(text, annual), r)

----------------------------------------------------------------------------
(* App: state and handlers *)

MaxFetches == 3

\* a call of fetchLatestTaxRates is in flight until its caller has resumed
InFlight(c) == c.st \in {"awaiting", "resolved"}

InFlightCalls == {i \in 1..Len(calls) : InFlight(calls[i])}

\* mutant: the refresh button is never disabled
RefreshDisabled_never == FALSE

\* the refresh button: disabled={isLoadingRates}
RefreshDisabled == isLoadingRates

\* mutant: the flag is not raised when a load starts
LoadingOnStart_unset == isLoadingRates

\* setIsLoadingRates(true) before the await of loadRates / handleRefreshRates:
\* the value the flag takes
LoadingOnStart == TRUE

AppInit ==
    /\ income = <<>>
    /\ isAnnual = FALSE
    /\ rates = DEFAULT_GHANA_TAX_RATES
    /\ isLoadingRates = FALSE
    /\ results = Results(<<>>, FALSE, DEFAULT_GHANA_TAX_RATES)
    /\ mounted = FALSE
    /\ calls = <<>>
    /\ requests = 0
    /\ applied = <<>>

\* loadRates / handleRefreshRates up to the await
BeginLoad(ctorThrows) ==
    LET c == StartFetch(apiKey, ctorThrows)
    IN  /\ Len(calls) < MaxFetches
        /\ isLoadingRates' = LoadingOnStart
        /\ calls' = Append(calls, c)
        /\ requests' = IF c.st = "awaiting" THEN requests + 1 ELSE requests
        /\ UNCHANGED <<income, isAnnual, rates, results, apiKey, applied>>

\* useEffect(() => { loadRates() }, []): runs once, when the component has
\* been mounted; the handlers below are reached by events on the mounted
\* component, so they act after it
Mount ==
    /\ ~mounted
    /\ mounted' = TRUE
    /\ \E ctorThrows \in BOOLEAN : BeginLoad(ctorThrows)
    /\ UNCHANGED calcVars

\* click on the refresh button; a disabled button dispatches no click
handleRefreshRates ==
    /\ mounted
    /\ ~RefreshDisabled
    /\ \E ctorThrows \in BOOLEAN : BeginLoad(ctorThrows)
    /\ UNCHANGED <<mounted, calcVars>>

\* generateContent settles for call i; fetchLatestTaxRates runs to its return
ServiceResponds ==
    \E i \in 1..Len(calls), resp \in Responses :
        /\ calls[i].st = "awaiting"
        /\ calls' = [calls EXCEPT ![i] = [st |-> "resolved", value |-> FetchResult(resp)]]
        /\ UNCHANGED <<income, isAnnual, rates, isLoadingRates, results, mounted,
                       apiKey, requests, applied, calcVars>>

\* the caller resumes after its await: setRates(latest); setIsLoadingRates(false).
\* A call that was rejected never resumes here: the await throws and the rest
\* of loadRates / handleRefreshRates is skipped.
Resume ==
    \E i \in 1..Len(calls) :
        /\ calls[i].st = "resolved"
        /\ rates' = calls[i].value
        /\ isLoadingRates' = FALSE
        /\ results' = Results(income, isAnnual, calls[i].value)
        /\ calls' = [calls EXCEPT ![i] = [st |-> "done", value |-> undefined]]
        /\ applied' = Append(applied, i)
        /\ UNCHANGED <<income, isAnnual, mounted, apiKey, requests, calcVars>>

\* texts of the income field: empty, not a number, zero, negative, signed,
\* with a fraction, with an exponent, beyond the doubles, with text after
IncomeTexts ==
    { <<>>, <<"x">>, <<"-">>, <<"0">>, <<"-", "0">>, <<"6">>, <<"-", "6">>,
      <<"+", "6">>, <<" ", "6">>, <<".", "6">>, <<"6", ".">>, <<"6", "x">>,
      <<"6", "e", "1">>, <<"1", "e", "-", "1">>, <<"6", "e">>, <<"e", "1">>,
      <<"9", "e", "9", "9", "9">>, <<"-", "9", "e", "9", "9", "9">>,
      <<"1", "e", "-", "9", "9", "9">>, <<"5", "0", "0", "0">>,
      <<"I", "n", "f", "i", "n", "i", "t", "y">> }

\* onChange of the income field: setIncome(e.target.value)
setIncome ==
    /\ mounted
    /\ \E text \in IncomeTexts :
          /\ text # income
          /\ income' = text
          /\ results' = Results(text, isAnnual, rates)
    /\ UNCHANGED <<isAnnual, rates, isLoadingRates, mounted, apiKey, calls,
                   requests, applied, calcVars>>

\* the Monthly / Annual buttons
setIsAnnual ==
    /\ mounted
    /\ \E b \in BOOLEAN :
          /\ b # isAnnual
          /\ isAnnual' = b
          /\ results' = Results(income, b, rates)
    /\ UNCHANGED <<income, rates, isLoadingRates, mounted, apiKey, calls,
                   requests, applied, calcVars>>

Init ==
    /\ AppInit
    /\ apiKey \in BOOLEAN
    /\ cRates = DEFAULT_GHANA_TAX_RATES
    /\ cOut = <<>>

Next ==
    \/ Mount
    \/ handleRefreshRates
    \/ ServiceResponds
    \/ Resume
    \/ setIncome
    \/ setIsAnnual

Spec == Init /\ [][Next]_vars

----------------------------------------------------------------------------
(* calculateTax on drawn inputs *)

MaxBrackets == 2

\* bracket widths (null: unbounded) and rates of the drawn tables
Limits       == {One, null}
BracketRates == {Num(1, 10), One}
SsnitRates   == {Zero, Num(55, 1000)}

\* the table of the bracket-exhaustion example
ExampleTable ==
    [ ssnitRate |-> Zero,
      year      |-> Str("example"),
      brackets  |-> << Bracket(Whole(100), Zero),
                       Bracket(Whole(50),  Num(1, 10)),
                       Bracket(null,       Num(2, 10)) >>,
      source    |-> undefined ]

\* a table whose mandatory deduction takes the whole income
FullSsnitTable ==
    [ ssnitRate |-> One,
      year      |-> Str("full ssnit"),
      brackets  |-> << Bracket(Whole(50), Num(1, 10)), Bracket(null, Num(2, 10)) >>,
      source    |-> undefined ]

\* a table with a bracket of width zero and a bounded last bracket
ZeroWidthTable ==
    [ ssnitRate |-> Num(55, 1000),
      year      |-> Str("zero width"),
      brackets  |-> << Bracket(Zero, One), Bracket(Whole(100), Num(1, 10)),
                       Bracket(Whole(50), One) >>,
      source    |-> undefined ]

\* a table whose widths are not whole numbers
FractionalTable ==
    [ ssnitRate |-> Zero,
      year      |-> Str("fractional"),
      brackets  |-> << Bracket(Num(1, 10), Zero), Bracket(Num(2, 10), Num(1, 10)),
                       Bracket(null, Num(2, 10)) >>,
      source    |-> undefined ]

BracketLists ==
    UNION { [1..k -> {Bracket(l, r) : l \in Limits, r \in BracketRates}] :
            k \in 1..MaxBrackets }

Tables ==
    { [ssnitRate |-> s, year |-> Str("drawn"), brackets |-> b, source |-> undefined] :
        s \in SsnitRates, b \in BracketLists }
      \cup {DEFAULT_GHANA_TAX_RATES, ExampleTable, FullSsnitTable, ZeroWidthTable,
            FractionalTable}

\* gross incomes, all non-negative
Incomes ==
    { Zero, Num(3, 10), One, Whole(2), Whole(200), Whole(5000),
      Num(1234567, 100), Whole(70000) }

CalcInit ==
    /\ AppInit
    /\ apiKey = FALSE
    /\ cRates \in Tables
    /\ cOut = <<>>

\* one call of calculateTax on the table; the last two results are kept
Calculate ==
    /\ \E g \in Incomes :
          LET out == calculateTax(g, cRates)
          IN  cOut' = IF Len(cOut) < 2 THEN Append(cOut, out) ELSE <<cOut[2], out>>
    /\ UNCHANGED <<cRates, appVars>>

CalcNext == Calculate

SpecCalc == CalcInit /\ [][CalcNext]_vars

----------------------------------------------------------------------------
(* Properties of calculateTax (checked under SpecCalc) *)

InUnit(x) == Leq(Zero, x) /\ Leq(x, One)

\* rates in [0,1]; widths are amounts of income, so not negative
RatesValid(t) ==
    /\ InUnit(t.ssnitRate)
    /\ \A i \in 1..Len(t.brackets) :
          /\ InUnit(t.brackets[i].rate)
          /\ t.brackets[i].limit # null => Leq(Zero, t.brackets[i].limit)

\* a valid table: rates in [0,1], brackets not empty, the last one unbounded
ValidTable(t) ==
    /\ RatesValid(t)
    /\ Len(t.brackets) > 0
    /\ t.brackets[Len(t.brackets)].limit = null

\* positive widths, ending with the only unbounded bracket
PositiveWidths(t) ==
    /\ ValidTable(t)
    /\ \A i \in 1..(Len(t.brackets) - 1) :
          t.brackets[i].limit # null /\ Lt(Zero, t.brackets[i].limit)

\* the relative tolerance 1e-9
Tolerance == Num(1, 1000000000)

\* the incomes the amended properties speak of: up to 1e9, far below the
\* doubles at which a sum of taxes overflows
IncomeCeiling == Whole(1000000000)

\* a and b are the same number (+0 and -0 are)
NumEq(a, b) == a.t # "NaN" /\ b.t # "NaN" /\ Compare(a, b) = 0

\* |x|
AbsNum(x) == IF x.t = "NaN" THEN x ELSE [x EXCEPT !.s = 0]

\* |a - b| <= 1e-9 * scale, evaluated in doubles
Within(a, b, scale) == Leq(AbsNum(Sub(a, b)), Mul(Tolerance, scale))

\* netIncome + ssnit + totalTax of a result, added from left to right
SumOfParts(out) == Add(Add(out.netIncome, out.ssnit), out.totalTax)

\* C1 (conservation, as stated): for a valid table and a non-negative gross
\* income, netIncome + ssnit + totalTax is equal to the gross income.
C1_Conservation ==
    ValidTable(cRates) =>
        \A k \in 1..Len(cOut) :
            Leq(Zero, cOut[k].grossIncome) =>
                NumEq(SumOfParts(cOut[k]), cOut[k].grossIncome)

\* C1 (conservation, amended): for a valid table with non-negative widths and
\* a gross income g with 0 <= g <= 1e9, netIncome + ssnit + totalTax differs
\* from g by at most 1e-9 * g.
C1_ConservationWithinTolerance ==
    ValidTable(cRates) =>
        \A k \in 1..Len(cOut) :
            (Leq(Zero, cOut[k].grossIncome)
               /\ Leq(cOut[k].grossIncome, IncomeCeiling)) =>
                Within(SumOfParts(cOut[k]), cOut[k].grossIncome, cOut[k].grossIncome)

\* a result with a positive deduction and tax in two or more brackets whose
\* parts sum to a double other than the gross income
C1_Witness ==
    /\ ValidTable(cRates)
    /\ \E k \in 1..Len(cOut) :
          /\ Lt(Zero, cOut[k].ssnit)
          /\ Lt(Zero, cOut[k].totalTax)
          /\ Len(cOut[k].breakdown) >= 2
          /\ Lt(cOut[k].netIncome, cOut[k].taxableIncome)
          /\ ~NumEq(SumOfParts(cOut[k]), cOut[k].grossIncome)
          /\ Within(SumOfParts(cOut[k]), cOut[k].grossIncome, cOut[k].grossIncome)

\* the sum of the widths of brackets 1..i of a table with positive widths
RECURSIVE WidthsBefore(_, _)
WidthsBefore(brackets, i) ==
    IF i = 0 THEN Zero ELSE Add(WidthsBefore(brackets, i - 1), brackets[i].limit)

\* what is left for bracket i by the closed form: T minus the sum of the
\* widths of the brackets before it
LeftBySum(T, brackets, i) == Sub(T, WidthsBefore(brackets, i - 1))

\* what is left for bracket i when the brackets before it are taken off one
\* after the other: T for the first, and then what was left for the bracket
\* before less the smaller of that and its width
RECURSIVE LeftInTurn(_, _, _)
LeftInTurn(T, brackets, i) ==
    IF i = 1 THEN T
    ELSE Sub(LeftInTurn(T, brackets, i - 1),
             MathMin(LeftInTurn(T, brackets, i - 1), brackets[i - 1].limit))

\* the sum of the taxes of entries 1..i of a breakdown, from left to right
RECURSIVE SumTax(_, _)
SumTax(breakdown, i) ==
    IF i = 0 THEN Zero ELSE Add(SumTax(breakdown, i - 1), breakdown[i].tax)

\* the claim for one result, Left(T, brackets, i) being what is left for
\* bracket i
ExhaustsInOrder(t, out, Left(_, _, _)) ==
    LET T  == out.taxableIncome
        bd == out.breakdown
    IN  /\ \A i \in 1..Len(t.brackets) :
              LET left == Left(T, t.brackets, i)
                  b    == t.brackets[i]
              IN  IF Lt(Zero, left)
                  THEN /\ i <= Len(bd)
                       /\ bd[i].bracket.limit = b.limit
                       /\ bd[i].amount = IF b.limit = null THEN left
                                         ELSE IF Leq(left, b.limit) THEN left
                                         ELSE b.limit
                       /\ bd[i].tax = Mul(bd[i].amount, b.rate)
                  ELSE i > Len(bd)
        /\ Len(bd) <= Len(t.brackets)
        /\ out.totalTax = SumTax(bd, Len(bd))

\* C4 (bracket exhaustion order, as stated): with positive widths and an
\* unbounded last bracket, and taxable income T > 0, entry i of the breakdown
\* belongs to bracket i, its amount is min(T - sum of the widths of the
\* brackets before, width i) (all that is left for the unbounded one), its tax
\* is amount * rate i, no entry exists for a bracket reached with nothing
\* left, and totalTax is the sum of the entries' taxes.
C4_BracketExhaustionOrder ==
    PositiveWidths(cRates) =>
        \A k \in 1..Len(cOut) :
            Lt(Zero, cOut[k].taxableIncome) =>
                ExhaustsInOrder(cRates, cOut[k], LeftBySum)

\* C4 (bracket exhaustion order, amended): the same, the amount of entry i
\* being min(what is left, width i), where what is left is T for the first
\* bracket and for each later one what was left before less the amount of the
\* entry before, each subtraction rounded to a double.
C4_ExhaustionByRunningRemainder ==
    PositiveWidths(cRates) =>
        \A k \in 1..Len(cOut) :
            Lt(Zero, cOut[k].taxableIncome) =>
                ExhaustsInOrder(cRates, cOut[k], LeftInTurn)

\* the example: [100@0, 50@0.1, unbounded@0.2] with taxable income 200
C4_Witness ==
    /\ cRates = ExampleTable
    /\ \E k \in 1..Len(cOut) :
          /\ cOut[k].taxableIncome = Whole(200)
          /\ [i \in 1..3 |-> cOut[k].breakdown[i].amount]
                = <<Whole(100), Whole(50), Whole(50)>>
          /\ [i \in 1..3 |-> cOut[k].breakdown[i].tax]
                = <<Zero, Whole(5), Whole(10)>>
          /\ Len(cOut[k].breakdown) = 3
          /\ cOut[k].totalTax = Whole(15)

\* C5 (concrete scenario): calculateTax(5000, DEFAULT_GHANA_TAX_RATES) has
\* ssnit 275, taxableIncome 4725, five breakdown entries with amounts
\* 490, 110, 130, 3160, 835 and taxes 0, 5.5, 13, 553, 208.75, totalTax
\* 780.25 and netIncome 3944.75.
C5_DefaultTableScenario ==
    \A k \in 1..Len(cOut) :
        (cOut[k].ratesUsed = DEFAULT_GHANA_TAX_RATES /\ cOut[k].grossIncome = Whole(5000)) =>
            /\ cOut[k].ssnit = Whole(275)
            /\ cOut[k].taxableIncome = Whole(4725)
            /\ Len(cOut[k].breakdown) = 5
            /\ [i \in 1..5 |-> cOut[k].breakdown[i].amount]
                  = <<Whole(490), Whole(110), Whole(130), Whole(3160), Whole(835)>>
            /\ [i \in 1..5 |-> cOut[k].breakdown[i].tax]
                  = <<Zero, Num(55, 10), Whole(13), Whole(553), Num(20875, 100)>>
            /\ cOut[k].totalTax = Num(78025, 100)
            /\ cOut[k].netIncome = Num(394475, 100)

\* calculateTax has been applied to 5000 and the default table
C5_Witness ==
    /\ cRates = DEFAULT_GHANA_TAX_RATES
    /\ Len(cOut) >= 1
    /\ cOut[Len(cOut)].grossIncome = Whole(5000)
    /\ cOut[Len(cOut)].breakdown # <<>>


----------------------------------------------------------------------------
(* Properties of fetchLatestTaxRates and App (checked under Spec) *)

\* C2 (no error reaches the caller): with a key configured, no call of
\* fetchLatestTaxRates ends rejected, whatever step of talking to the service
\* fails, the construction of the client included.
C2_NeverPropagates ==
    apiKey => \A i \in 1..Len(calls) : calls[i].st # "rejected"

\* C3 (fallback determinism): without a key, every call resolves to the
\* hardcoded default table (ssnitRate 0.055, the seven default brackets, year
\* "2024/2025", no source) and no request is issued.
C3_FallbackDeterminism ==
    ~apiKey =>
        /\ requests = 0
        /\ \A i \in 1..Len(calls) :
              /\ calls[i].st \in {"resolved", "done"}
              /\ calls[i].st = "resolved" =>
                    /\ calls[i].value = DEFAULT_GHANA_TAX_RATES
                    /\ calls[i].value.source = undefined
        /\ rates.ssnitRate = Num(55, 1000)
        /\ rates.year = Str("2024/2025")
        /\ rates.brackets = DEFAULT_GHANA_TAX_RATES.brackets
        /\ Len(rates.brackets) = 7
        /\ rates.source = undefined

\* without a key, the mount load and a refresh have both been applied
C3_Witness ==
    /\ ~apiKey
    /\ Len(applied) >= 2
    /\ rates = DEFAULT_GHANA_TAX_RATES

\* C7 (input sanitization): whatever the income text and the toggle, the value
\* passed to calculateTax is a non-negative finite number (it is returned as
\* grossIncome of the results).
C7_SanitizedIncome ==
    /\ results.grossIncome.t = "number"
    /\ Leq(Zero, results.grossIncome)

\* C8 (loading indicator): while a fetch is in flight the loading flag is
\* true, so the flag is false only when no fetch is in flight.
C8_LoadingWhileInFlight ==
    InFlightCalls # {} => isLoadingRates

\* a refresh (not the mount load) awaiting the service, the flag raised
C8_Witness ==
    /\ Len(calls) >= 2
    /\ calls[Len(calls)].st = "awaiting"
    /\ calls[1].st = "done"
    /\ isLoadingRates

\* C9 (held table well formed): the held rate table has at least one bracket.
C9_HeldTableNonEmpty ==
    /\ Len(rates.brackets) > 0
    /\ Len(results.ratesUsed.brackets) > 0

\* C10 (no overlapping refresh): at most one call is in flight, and results
\* are applied in the order in which their calls were started.
C10_NoOverlap ==
    /\ Cardinality(InFlightCalls) <= 1
    /\ \A j, k \in 1..Len(applied) : j < k => applied[j] < applied[k]

\* two results applied one after the other and a third call in flight
C10_Witness ==
    /\ Len(applied) >= 2
    /\ Cardinality(InFlightCalls) = 1
    /\ Len(calls) \in InFlightCalls

====
